---- MODULE Spec2Model ----
(***************************************************************************)
(* Model of tourist-destinations-shortlist.py: a three-node LangGraph      *)
(* workflow (get_destinations -> get_attractions -> display_results)       *)
(* driven by route_by_step over the "step" field of the shared State.      *)
(*                                                                         *)
(* Text is modelled as a sequence of one-character strings, so that        *)
(* strip / split / lstrip are computed character by character as Python    *)
(* computes them.  A dict is modelled as a sequence of <<key, value>>      *)
(* pairs in insertion order (Python dicts keep insertion order).           *)
(***************************************************************************)
EXTENDS Integers, Sequences, FiniteSets, TLC

VARIABLES
    state,        \* the graph's State: messages, destinations, attractions, step
    pc,           \* position of the program
    attractions,  \* local dict of get_attractions_node (line 85)
    idx,          \* position of the for loop of get_attractions_node (line 87)
    country,      \* local of get_attractions_node (lines 91, 94)
    city,         \* local of get_attractions_node (lines 91, 95)
    item,         \* local of get_attractions_node (line 113)
    clean_item,   \* local of get_attractions_node (line 115)
    calls,        \* prompts handed to llm.invoke so far, in order
    lastReply,    \* outcome of the latest llm.invoke
    seen,         \* per destination: all outcomes of its llm.invoke calls, and the last
    trace,        \* node functions entered so far, in order
    out,          \* lines printed so far
    exitCode,     \* exit status of the process; -1 while it is running
    routed        \* latest value returned by route_by_step

vars == <<state, pc, attractions, idx, country, city, item, clean_item, calls, lastReply, seen, trace, out, exitCode, routed>>

-----------------------------------------------------------------------------
(* Bounds of the model *)

\* longest destinations response, in lines
MaxLines == 14
\* route_by_step is probed on step values -MaxCtl .. MaxCtl
MaxCtl == 5
\* line 115 is probed on items of at most MaxItemLen characters
MaxItemLen == 4

(* Program constants *)

\* destinations[:10]
MaxDestinations == 10
\* clean_attractions[:5]
MaxAttractions == 5

END == "__end__"

-----------------------------------------------------------------------------
(* Characters *)

NL == "\n"
Whitespace == {" ", NL, "\t"}
Digits == {"0", "1", "2", "3", "4", "5", "6", "7", "8", "9"}
Letters == {"J", "T", "F", "P", "x", "E", "L", "a", "b", "c", "d", "e", "f", "g"}

\* str.isdigit() or str.isalpha() of one character (line 109)
IsAlnum(c) == c \in Digits \/ c \in Letters

Min(a, b) == IF a < b THEN a ELSE b

-----------------------------------------------------------------------------
(* Python string and list operations *)

\* s.lstrip(chars)
RECURSIVE LStripChars(_, _)
LStripChars(s, chars) ==
    IF s = <<>> THEN <<>>
    ELSE IF Head(s) \in chars THEN LStripChars(Tail(s), chars)
    ELSE s

\* s.rstrip(chars)
RECURSIVE RStripChars(_, _)
RStripChars(s, chars) ==
    IF s = <<>> THEN <<>>
    ELSE IF s[Len(s)] \in chars THEN RStripChars(SubSeq(s, 1, Len(s) - 1), chars)
    ELSE s

\* s.strip()
Strip(s) == RStripChars(LStripChars(s, Whitespace), Whitespace)

\* position of the first c in s, 0 when there is none
RECURSIVE FindFrom(_, _, _)
FindFrom(s, c, i) ==
    IF i > Len(s) THEN 0
    ELSE IF s[i] = c THEN i
    ELSE FindFrom(s, c, i + 1)

Find(s, c) == FindFrom(s, c, 1)

\* c in s
Contains(s, c) == Find(s, c) # 0

\* s.split(c): every segment between separators, at least one segment
RECURSIVE Split(_, _)
Split(s, c) ==
    LET p == Find(s, c) IN
    IF p = 0 THEN <<s>>
    ELSE <<SubSeq(s, 1, p - 1)>> \o Split(SubSeq(s, p + 1, Len(s)), c)

\* s.split(c, 1): at most one cut, at the first separator
SplitOnce(s, c) ==
    LET p == Find(s, c) IN
    IF p = 0 THEN <<s>>
    ELSE <<SubSeq(s, 1, p - 1), SubSeq(s, p + 1, Len(s))>>

\* seq[:n]
Take(seq, n) == SubSeq(seq, 1, Min(n, Len(seq)))

\* [f(x) for x in seq if keep(x)]
RECURSIVE StripNonBlank(_)
StripNonBlank(lines) ==
    IF lines = <<>> THEN <<>>
    ELSE IF Strip(Head(lines)) # <<>>
         THEN <<Strip(Head(lines))>> \o StripNonBlank(Tail(lines))
         ELSE StripNonBlank(Tail(lines))

-----------------------------------------------------------------------------
(* Python dict, kept in insertion order *)

DictKeys(d) == {d[i][1] : i \in 1..Len(d)}

DictPos(d, k) == IF k \in DictKeys(d) THEN CHOOSE i \in 1..Len(d) : d[i][1] = k ELSE 0

DictGet(d, k) == d[DictPos(d, k)][2]

\* d[k] = v: a present key keeps its position, a new key goes last
DictSet(d, k, v) ==
    IF k \in DictKeys(d)
    THEN [i \in 1..Len(d) |-> IF d[i][1] = k THEN <<k, v>> ELSE d[i]]
    ELSE Append(d, <<k, v>>)

-----------------------------------------------------------------------------
(* Literals of the program.  A literal is one token of text. *)

Unknown == <<"Unknown">>
ErrorMarker == <<"Error retrieving attractions">>
LeadingMarkers == Digits \cup {".", " "}

GET_DESTINATIONS_PROMPT ==
    [role |-> "system", content |-> <<"You are a travel expert. Generate 10 ...">>]

GET_ATTRACTIONS_PROMPT_TEMPLATE ==
    [role |-> "system",
     content |-> <<"You are a local guide. For the city ", "{city}", ", list 5 ...">>]

\* template.format(city=city): the replacement field is replaced by the text of city
RECURSIVE Format(_, _)
Format(template, value) ==
    IF template = <<>> THEN <<>>
    ELSE IF Head(template) = "{city}" THEN value \o Format(Tail(template), value)
    ELSE <<Head(template)>> \o Format(Tail(template), value)

-----------------------------------------------------------------------------
(* get_destinations_node: parsing of the response *)

\* variant: the cut to 10 is missing
ParseDestinations_uncut(content) ==
    StripNonBlank(Split(Strip(content), NL))

ParseDestinations(content) ==
    LET destinations_text == Strip(content)
        destinations == StripNonBlank(Split(destinations_text, NL))
    IN  Take(destinations, MaxDestinations)

-----------------------------------------------------------------------------
(* get_attractions_node: the body of the loop *)

\* position of the last c in s, 0 when there is none
RECURSIVE FindLast(_, _, _)
FindLast(s, c, i) ==
    IF i = 0 THEN 0
    ELSE IF s[i] = c THEN i
    ELSE FindLast(s, c, i - 1)

\* variant: the cut is made at the last separator (rsplit)
SplitDestination_last(destination) ==
    LET p == FindLast(destination, "-", Len(destination)) IN
    IF p = 0 THEN <<Unknown, destination>>
    ELSE <<SubSeq(destination, 1, p - 1), SubSeq(destination, p + 1, Len(destination))>>

\* lines 90-95: <<country, city>>
SplitDestination(destination) ==
    IF Contains(destination, "-")
    THEN SplitOnce(destination, "-")
    ELSE <<Unknown, destination>>

\* lines 100-101
AttractionsPrompt(locale) ==
    [role |-> "system", content |-> Format(GET_ATTRACTIONS_PROMPT_TEMPLATE.content, locale)]

\* any(char.isdigit() or char.isalpha() for char in line)
AnyAlnum(line) == \E i \in 1..Len(line) : IsAlnum(line[i])

\* lines 108-109
RECURSIVE AttractionLines(_)
AttractionLines(lines) ==
    IF lines = <<>> THEN <<>>
    ELSE IF Strip(Head(lines)) # <<>> /\ AnyAlnum(Head(lines))
         THEN <<Strip(Head(lines))>> \o AttractionLines(Tail(lines))
         ELSE AttractionLines(Tail(lines))

\* variant: the dash is stripped as a marker too
CleanItem_dash(text) == LStripChars(text, LeadingMarkers \cup {"-"})

\* line 115
CleanItem(text) == LStripChars(text, LeadingMarkers)

\* lines 112-117
RECURSIVE CleanAttractions(_)
CleanAttractions(items) ==
    IF items = <<>> THEN <<>>
    ELSE IF CleanItem(Head(items)) # <<>>
         THEN <<CleanItem(Head(items))>> \o CleanAttractions(Tail(items))
         ELSE CleanAttractions(Tail(items))

\* lines 107-117: clean_attractions, before the cut to 5
ParseAttractions(content) ==
    LET attractions_text == Strip(content)
        attraction_list == AttractionLines(Split(attractions_text, NL))
    IN  CleanAttractions(attraction_list)

\* variant: the list is stored without the cut to 5
StoredAttractions_uncut(content) == ParseAttractions(content)

\* line 120: what is stored for a destination whose call succeeded
StoredAttractions(content) == Take(ParseAttractions(content), MaxAttractions)

\* line 126: what is stored for a destination whose call raised
DegradedAttractions == <<ErrorMarker>>

\* line 120: attractions[destination] = clean_attractions[:5]
StoreSuccess(d, destination, content) ==
    DictSet(d, destination, StoredAttractions(content))

\* variant: the except clause starts the dict afresh
StoreFailure_reset(d, destination) ==
    <<<<destination, DegradedAttractions>>>>

\* variant: the except clause records nothing
StoreFailure_dropped(d, destination) == d

\* lines 124-126: the except clause
StoreFailure(d, destination) ==
    DictSet(d, destination, DegradedAttractions)

-----------------------------------------------------------------------------
(* The State schema and the graph *)

\* lines 233-238
initial_state ==
    [messages |-> <<>>, destinations |-> <<>>, attractions |-> <<>>, step |-> 1]

\* variant: messages is a plain channel, the update overwrites it
add_messages_overwrite(left, right) == right

\* add_messages: a message whose id is already present replaces that message,
\* any other message is appended
RECURSIVE add_messages(_, _)
add_messages(left, right) ==
    IF right = <<>> THEN left
    ELSE LET m == Head(right)
             hit == {i \in 1..Len(left) : left[i].id = m.id}
             merged == IF hit = {}
                       THEN Append(left, m)
                       ELSE [i \in 1..Len(left) |-> IF i \in hit THEN m ELSE left[i]]
         IN  add_messages(merged, Tail(right))

\* variant: the update replaces the State, keys it does not hold fall back to
\* their defaults
Merge_replace(current, update) ==
    [f \in DOMAIN current |->
        IF f \notin DOMAIN update THEN initial_state[f]
        ELSE IF f = "messages" THEN add_messages(current[f], update[f])
        ELSE update[f]]

\* The channels of State: messages is reduced by add_messages, every other
\* key is overwritten; a key the update does not hold is left as it is
Merge(current, update) ==
    [f \in DOMAIN current |->
        IF f \notin DOMAIN update THEN current[f]
        ELSE IF f = "messages" THEN add_messages(current[f], update[f])
        ELSE update[f]]

\* variant: a falsy step is taken for a missing one (state.get("step") or 1)
route_by_step_falsy(s) ==
    LET step == IF "step" \in DOMAIN s /\ s.step # 0 THEN s.step ELSE 1 IN
    IF step = 1 THEN "get_destinations"
    ELSE IF step = 2 THEN "get_attractions"
    ELSE IF step = 3 THEN "display_results"
    ELSE END

route_by_step(s) ==
    LET step == IF "step" \in DOMAIN s THEN s.step ELSE 1 IN
    IF step = 1 THEN "get_destinations"
    ELSE IF step = 2 THEN "get_attractions"
    ELSE IF step = 3 THEN "display_results"
    ELSE END

\* the path map of the conditional edges leaving a node
PathMap(node) ==
    IF node = "get_destinations" THEN {"get_attractions", "display_results", END}
    ELSE IF node = "get_attractions" THEN {"display_results", END}
    ELSE {}

\* variant: display_results is wired back to the entry point instead of END
NextNode_cycle(node, s) ==
    IF node = "display_results" THEN "get_destinations"
    ELSE IF route_by_step(s) \in PathMap(node) THEN route_by_step(s)
    ELSE "KeyError"

\* where the graph goes after `node` has left the state s: the router's answer
\* looked up in the path map (a missing key raises); display_results has a
\* plain edge to END
NextNode(node, s) ==
    IF node = "display_results" THEN END
    ELSE IF route_by_step(s) \in PathMap(node) THEN route_by_step(s)
    ELSE "KeyError"

\* variant: the node leaves control at 1
DestinationsUpdate_stay(destinations, response) ==
    [destinations |-> destinations, step |-> 1, messages |-> <<response>>]

\* lines 72-76
DestinationsUpdate(destinations, response) ==
    [destinations |-> destinations, step |-> 2, messages |-> <<response>>]

\* variant: with nothing collected the node asks to be run again
AttractionsUpdate_again(d) ==
    [attractions |-> d, step |-> IF d = <<>> THEN 2 ELSE 3, messages |-> <<>>]

\* lines 128-132
AttractionsUpdate(d) ==
    [attractions |-> d, step |-> 3, messages |-> <<>>]

\* variant: the report points control back at the first step
DisplayUpdate_restart == [step |-> 1]

\* line 161
DisplayUpdate == [step |-> 0]

-----------------------------------------------------------------------------
(* Console output: a printed line is a tuple, its first element names the
   print statement.  The progress lines the nodes print while they work
   (lines 58, 70, 83, 97, 122, 125) read no state back and are left out; the
   diagnostics, the report and the closing lines are kept. *)

\* lines 142-143
RenderDestinations(destinations) ==
    [i \in 1..Len(destinations) |-> <<"destination", i, destinations[i]>>]

\* lines 147-152
RenderHeading(destination) ==
    LET country_city == Split(destination, "-") IN
    IF Len(country_city) = 2
    THEN <<"heading", country_city[2], country_city[1]>>
    ELSE <<"heading_plain", destination>>

\* variant: a list that holds only the error marker is not printed
RenderList_hidden(attraction_list) ==
    IF attraction_list = <<ErrorMarker>> THEN <<>>
    ELSE [j \in 1..Len(attraction_list) |-> <<"attraction", j, attraction_list[j]>>]

\* lines 154-155
RenderList(attraction_list) ==
    [j \in 1..Len(attraction_list) |-> <<"attraction", j, attraction_list[j]>>]

\* lines 146-155
RECURSIVE RenderAttractions(_)
RenderAttractions(d) ==
    IF d = <<>> THEN <<>>
    ELSE <<RenderHeading(Head(d)[1])>> \o RenderList(Head(d)[2])
         \o RenderAttractions(Tail(d))

\* lines 138-159
Report(s) ==
    <<<<"TOURIST INFORMATION AGENT - FINAL RESULTS">>,
      <<"ICONIC TOUR DESTINATIONS (Country-City):">>>>
    \o RenderDestinations(s.destinations)
    \o <<<<"FAMOUS ATTRACTIONS FOR EACH CITY:">>>>
    \o RenderAttractions(s.attractions)
    \o <<<<"Process completed successfully!">>>>

\* lines 22-23 and 33-34
InitDiagnostic ==
    <<<<"Error initializing Ollama model">>,
      <<"Please ensure Ollama is installed and the 'gemma3' model is available.">>>>

\* lines 224-230 and 242
Banner == <<<<"AUTOMATED TOURIST INFORMATION AGENT">>, <<"Starting automated process...">>>>

\* lines 251-253
Completed == <<<<"Agent execution completed!">>>>

\* lines 255-256
InterruptNotice == <<<<"Process interrupted by user.">>>>

\* lines 257-259
RunDiagnostic ==
    <<<<"Error during execution">>,
      <<"Please check your Ollama installation and try again.">>>>

-----------------------------------------------------------------------------
(* The run block, lines 241-259: app.stream drives the graph; an Exception
   that leaves it is printed and the script then runs off its end *)

\* position after a node that hands over to nxt
PcAfter(nxt) ==
    IF nxt = END THEN "done"
    ELSE IF nxt = "KeyError" THEN "failed"
    ELSE nxt

\* what the run block prints when the graph hands over to nxt
OutAfter(nxt) ==
    IF nxt = END THEN Completed
    ELSE IF nxt = "KeyError" THEN RunDiagnostic
    ELSE <<>>

\* the script has no sys.exit(code): it ends with status 0 whenever it ends
ExitAfter(nxt) == IF nxt \in {END, "KeyError"} THEN 0 ELSE -1

-----------------------------------------------------------------------------
(* The language model: an opaque collaborator.  Its responses are drawn from
   the sets below; a call may also raise. *)

JoinLines(lines) ==
    LET RECURSIVE Join(_)
        Join(ls) == IF Len(ls) = 0 THEN <<>>
                    ELSE IF Len(ls) = 1 THEN ls[1]
                    ELSE ls[1] \o <<NL>> \o Join(Tail(ls))
    IN  Join(lines)

\* lines a destinations response is made of: a pair, a name with no separator,
\* a padded pair with two separators, a blank line
DestLinePool ==
    << <<"J", "-", "T">>,
       <<"T">>,
       <<" ", "F", "-", "P", "-", "x", " ">>,
       <<" ", "\t">> >>

\* n lines: the pool from its line off + 1 on, once around, then its first
\* line again and again
DestLines(n, off) ==
    [i \in 1..n |->
        IF i <= Len(DestLinePool)
        THEN DestLinePool[((i + off - 1) % Len(DestLinePool)) + 1]
        ELSE DestLinePool[1]]

DestinationResponses ==
    {JoinLines(DestLines(n, off)) : n \in 0..MaxLines, off \in 0..(Len(DestLinePool) - 1)}

\* "1. E\n2. L"
ShortList == <<"1", ".", " ", "E", NL, "2", ".", " ", "L">>

\* ten lines: a blank one, one of punctuation only, a padded one, one with a
\* dash marker, one that is nothing but its marker, and seven attractions
LongList ==
    <<"1", ".", " ", "a", NL,
      NL,
      "-", "-", NL,
      " ", "2", ".", " ", "b", " ", NL,
      "-", " ", "c", NL,
      "3", ".", NL,
      "3", ".", " ", "d", NL,
      "4", ".", " ", "e", NL,
      "5", ".", " ", "f", NL,
      "6", ".", " ", "g">>

AttractionResponses == {ShortList, LongList}

Replied(content) == [ok |-> TRUE, content |-> content]
Raised == [ok |-> FALSE, content |-> <<>>]
NoReply == [ok |-> FALSE, content |-> <<"no call yet">>]
\* the call is cut short by KeyboardInterrupt, which is no Exception
Interrupted == [ok |-> FALSE, content |-> <<"KeyboardInterrupt">>]

\* the AIMessage llm.invoke returns; every response carries a fresh id
AIMessage(content, n) == [id |-> n, role |-> "ai", content |-> content]

\* history of the calls: the outcome of the call for destination is recorded
Saw(destination, reply) ==
    [k \in DOMAIN seen \cup {destination} |->
        IF k = destination
        THEN [all |-> (IF k \in DOMAIN seen THEN seen[k].all ELSE {}) \cup {reply},
              last |-> reply]
        ELSE seen[k]]

-----------------------------------------------------------------------------
(* Initial state: the script is about to construct the model client *)

Init ==
    /\ state = initial_state
    /\ pc = "init"
    /\ attractions = <<>>
    /\ idx = 0
    /\ country = <<>>
    /\ city = <<>>
    /\ item = <<>>
    /\ clean_item = <<>>
    /\ calls = <<>>
    /\ lastReply = NoReply
    /\ seen = <<>>
    /\ trace = <<>>
    /\ out = <<>>
    /\ exitCode = -1
    /\ routed = "none"

\* lines 29-31 succeed; the graph is built and the run block starts the stream
ClientReady ==
    /\ pc = "init"
    /\ pc' = "get_destinations"
    /\ out' = out \o Banner
    /\ UNCHANGED <<state, attractions, idx, country, city, item, clean_item, calls, lastReply, seen, trace, exitCode, routed>>

\* lines 32-35: ChatOllama raises; two lines are printed and exit() ends the
\* process (exit() without an argument: status 0)
ClientFails ==
    /\ pc = "init"
    /\ pc' = "exited"
    /\ out' = out \o InitDiagnostic
    /\ exitCode' = 0
    /\ UNCHANGED <<state, attractions, idx, country, city, item, clean_item, calls, lastReply, seen, trace, routed>>

\* lines 53-76, the response being `content`; then the merge of the update and
\* the conditional edge of get_destinations
GetDestinations(content) ==
    /\ pc = "get_destinations"
    /\ LET response == AIMessage(content, Len(calls) + 1)
           destinations == ParseDestinations(response.content)
           update == DestinationsUpdate(destinations, response)
           merged == Merge(state, update)
           nxt == NextNode("get_destinations", merged)
       IN  /\ state' = merged
           /\ routed' = route_by_step(merged)
           /\ pc' = PcAfter(nxt)
           /\ out' = out \o OutAfter(nxt)
           /\ exitCode' = ExitAfter(nxt)
    /\ calls' = Append(calls, <<GET_DESTINATIONS_PROMPT>>)
    /\ lastReply' = Replied(content)
    /\ trace' = Append(trace, "get_destinations")
    /\ idx' = 0
    /\ UNCHANGED <<attractions, country, city, item, clean_item, seen>>

\* variant: the failure is caught in the node and an empty list is returned
GetDestinationsRaises_absorbed ==
    /\ pc = "get_destinations"
    /\ calls' = Append(calls, <<GET_DESTINATIONS_PROMPT>>)
    /\ lastReply' = Raised
    /\ trace' = Append(trace, "get_destinations")
    /\ state' = [state EXCEPT !.step = 2]
    /\ routed' = "get_attractions"
    /\ pc' = "get_attractions"
    /\ UNCHANGED <<attractions, idx, country, city, item, clean_item, seen, out, exitCode>>

\* line 61 raises: nothing catches it inside the node, the stream re-raises it
\* and the run block prints it (lines 257-259)
GetDestinationsRaises ==
    /\ pc = "get_destinations"
    /\ calls' = Append(calls, <<GET_DESTINATIONS_PROMPT>>)
    /\ lastReply' = Raised
    /\ trace' = Append(trace, "get_destinations")
    /\ pc' = "failed"
    /\ out' = out \o RunDiagnostic
    /\ exitCode' = 0
    /\ UNCHANGED <<state, attractions, idx, country, city, item, clean_item, seen, routed>>

\* the process is interrupted while line 61 waits for the model: the
\* KeyboardInterrupt leaves the node and the stream and reaches lines 255-256
GetDestinationsInterrupted ==
    /\ pc = "get_destinations"
    /\ calls' = Append(calls, <<GET_DESTINATIONS_PROMPT>>)
    /\ lastReply' = Interrupted
    /\ trace' = Append(trace, "get_destinations")
    /\ pc' = "interrupted"
    /\ out' = out \o InterruptNotice
    /\ exitCode' = 0
    /\ UNCHANGED <<state, attractions, idx, country, city, item, clean_item, seen, routed>>

\* lines 83-85: the node is entered
GetAttractionsEnter ==
    /\ pc = "get_attractions"
    /\ idx = 0
    /\ idx' = 1
    /\ attractions' = <<>>
    /\ trace' = Append(trace, "get_attractions")
    /\ UNCHANGED <<state, pc, country, city, item, clean_item, calls, lastReply, seen, out, exitCode, routed>>

\* lines 88-122: one pass of the loop whose call returns `content`
GetAttractionsItem(content) ==
    /\ pc = "get_attractions"
    /\ idx \in 1..Len(state.destinations)
    /\ LET destination == state.destinations[idx]
           attractions_prompt == AttractionsPrompt(city')
       IN  /\ country' = SplitDestination(destination)[1]
           /\ city' = SplitDestination(destination)[2]
           /\ calls' = Append(calls, <<attractions_prompt>>)
           /\ attractions' = StoreSuccess(attractions, destination, content)
           /\ seen' = Saw(destination, Replied(content))
    /\ LET attraction_list == AttractionLines(Split(Strip(content), NL))
       IN  IF attraction_list = <<>>
           THEN UNCHANGED <<item, clean_item>>
           ELSE /\ item' = attraction_list[Len(attraction_list)]
                /\ clean_item' = CleanItem(item')
    /\ lastReply' = Replied(content)
    /\ idx' = idx + 1
    /\ UNCHANGED <<state, pc, trace, out, exitCode, routed>>

\* variant: the except clause leaves the item to be tried again
GetAttractionsItemRaises_retry ==
    /\ pc = "get_attractions"
    /\ idx \in 1..Len(state.destinations)
    /\ LET destination == state.destinations[idx]
           attractions_prompt == AttractionsPrompt(city')
       IN  /\ country' = SplitDestination(destination)[1]
           /\ city' = SplitDestination(destination)[2]
           /\ calls' = Append(calls, <<attractions_prompt>>)
           /\ attractions' = StoreFailure(attractions, destination)
           /\ seen' = Saw(destination, Raised)
    /\ lastReply' = Raised
    /\ idx' = idx
    /\ UNCHANGED <<state, pc, item, clean_item, trace, out, exitCode, routed>>

\* lines 88-104 and 124-126: one pass of the loop whose call raises
GetAttractionsItemRaises ==
    /\ pc = "get_attractions"
    /\ idx \in 1..Len(state.destinations)
    /\ LET destination == state.destinations[idx]
           attractions_prompt == AttractionsPrompt(city')
       IN  /\ country' = SplitDestination(destination)[1]
           /\ city' = SplitDestination(destination)[2]
           /\ calls' = Append(calls, <<attractions_prompt>>)
           /\ attractions' = StoreFailure(attractions, destination)
           /\ seen' = Saw(destination, Raised)
    /\ lastReply' = Raised
    /\ idx' = idx + 1
    /\ UNCHANGED <<state, pc, item, clean_item, trace, out, exitCode, routed>>

\* variant: the interrupt is caught like an Exception (a bare except clause)
GetAttractionsItemInterrupted_absorbed ==
    /\ pc = "get_attractions"
    /\ idx \in 1..Len(state.destinations)
    /\ LET destination == state.destinations[idx]
           attractions_prompt == AttractionsPrompt(city')
       IN  /\ country' = SplitDestination(destination)[1]
           /\ city' = SplitDestination(destination)[2]
           /\ calls' = Append(calls, <<attractions_prompt>>)
           /\ attractions' = StoreFailure(attractions, destination)
           /\ seen' = Saw(destination, Interrupted)
    /\ lastReply' = Interrupted
    /\ idx' = idx + 1
    /\ UNCHANGED <<state, pc, item, clean_item, trace, out, exitCode, routed>>

\* lines 88-104: the process is interrupted while line 104 waits for the
\* model; `except Exception` (line 124) does not catch KeyboardInterrupt, which
\* leaves the node and the stream and reaches lines 255-256; the node's local
\* dict never becomes an update
GetAttractionsItemInterrupted ==
    /\ pc = "get_attractions"
    /\ idx \in 1..Len(state.destinations)
    /\ LET destination == state.destinations[idx]
           attractions_prompt == AttractionsPrompt(city')
       IN  /\ country' = SplitDestination(destination)[1]
           /\ city' = SplitDestination(destination)[2]
           /\ calls' = Append(calls, <<attractions_prompt>>)
           /\ seen' = Saw(destination, Interrupted)
    /\ lastReply' = Interrupted
    /\ pc' = "interrupted"
    /\ out' = out \o InterruptNotice
    /\ exitCode' = 0
    /\ UNCHANGED <<state, attractions, idx, item, clean_item, trace, routed>>

\* lines 128-132, after the loop; then the merge of the update and the
\* conditional edge of get_attractions
GetAttractionsReturn ==
    /\ pc = "get_attractions"
    /\ idx = Len(state.destinations) + 1
    /\ LET update == AttractionsUpdate(attractions)
           merged == Merge(state, update)
           nxt == NextNode("get_attractions", merged)
       IN  /\ state' = merged
           /\ routed' = route_by_step(merged)
           /\ pc' = PcAfter(nxt)
           /\ out' = out \o OutAfter(nxt)
           /\ exitCode' = ExitAfter(nxt)
    /\ idx' = 0
    /\ UNCHANGED <<attractions, country, city, item, clean_item, calls, lastReply, seen, trace>>

\* lines 134-161; then the merge of the update and the edge to END, after
\* which the stream is exhausted and the run block prints its last lines
DisplayResults ==
    /\ pc = "display_results"
    /\ LET update == DisplayUpdate
           merged == Merge(state, update)
           nxt == NextNode("display_results", merged)
       IN  /\ state' = merged
           /\ pc' = PcAfter(nxt)
           /\ out' = out \o Report(state) \o OutAfter(nxt)
           /\ exitCode' = ExitAfter(nxt)
    /\ trace' = Append(trace, "display_results")
    /\ UNCHANGED <<attractions, idx, country, city, item, clean_item, calls, lastReply, seen, routed>>

Next ==
    \/ ClientReady
    \/ ClientFails
    \/ \E content \in DestinationResponses : GetDestinations(content)
    \/ GetDestinationsRaises
    \/ GetDestinationsInterrupted
    \/ GetAttractionsEnter
    \/ \E content \in AttractionResponses : GetAttractionsItem(content)
    \/ GetAttractionsItemRaises
    \/ GetAttractionsItemInterrupted
    \/ GetAttractionsReturn
    \/ DisplayResults

Spec == Init /\ [][Next]_vars

\* every model call returns, raises or is interrupted, and the interpreter
\* keeps running: a step of the program that can be taken is taken
Fairness ==
    /\ WF_vars(ClientReady \/ ClientFails)
    /\ WF_vars(GetDestinationsRaises \/ GetDestinationsInterrupted
               \/ \E content \in DestinationResponses : GetDestinations(content))
    /\ WF_vars(GetAttractionsEnter)
    /\ WF_vars(GetAttractionsItemRaises \/ GetAttractionsItemInterrupted
               \/ \E content \in AttractionResponses : GetAttractionsItem(content))
    /\ WF_vars(GetAttractionsReturn)
    /\ WF_vars(DisplayResults)

FairSpec == Spec /\ Fairness

-----------------------------------------------------------------------------
(* route_by_step on its own: applied once to a State drawn from RouterInputs,
   which holds every step value in -MaxCtl .. MaxCtl and States with no step
   key at all *)

RouterFields ==
    [messages : {<<>>, <<AIMessage(ShortList, 1)>>},
     destinations : {<<>>, <<DestLinePool[1]>>, <<DestLinePool[1], DestLinePool[2]>>},
     attractions : {<<>>, << <<DestLinePool[1], DegradedAttractions>> >>}]

RouterInputs ==
    RouterFields
    \cup {[f \in {"messages", "destinations", "attractions", "step"} |->
              IF f = "step" THEN n ELSE r[f]] : r \in RouterFields, n \in (-MaxCtl)..MaxCtl}

RouterInit ==
    /\ state \in RouterInputs
    /\ pc = "route"
    /\ attractions = <<>>
    /\ idx = 0
    /\ country = <<>>
    /\ city = <<>>
    /\ item = <<>>
    /\ clean_item = <<>>
    /\ calls = <<>>
    /\ lastReply = NoReply
    /\ seen = <<>>
    /\ trace = <<>>
    /\ out = <<>>
    /\ exitCode = -1
    /\ routed = "none"

RouteOnce ==
    /\ pc = "route"
    /\ routed' = route_by_step(state)
    /\ pc' = "routed"
    /\ UNCHANGED <<state, attractions, idx, country, city, item, clean_item, calls, lastReply, seen,
                   trace, out, exitCode>>

RouterSpec == RouterInit /\ [][RouteOnce]_vars

-----------------------------------------------------------------------------
(* Line 115 on its own: lstrip applied once to an item drawn from CleanInputs.
   An item of attraction_list is a stripped line that holds a letter or a
   digit (lines 108-109); CleanInputs holds every such text of at most
   MaxItemLen characters over CleanAlphabet. *)

CleanAlphabet == {"2", ".", " ", "-", "E"}

CleanInputs ==
    {text \in UNION {[1..n -> CleanAlphabet] : n \in 1..MaxItemLen} :
        Strip(text) = text /\ AnyAlnum(text)}

CleanInit ==
    /\ item \in CleanInputs
    /\ pc = "clean"
    /\ state = initial_state
    /\ attractions = <<>>
    /\ idx = 0
    /\ country = <<>>
    /\ city = <<>>
    /\ clean_item = <<>>
    /\ calls = <<>>
    /\ lastReply = NoReply
    /\ seen = <<>>
    /\ trace = <<>>
    /\ out = <<>>
    /\ exitCode = -1
    /\ routed = "none"

CleanOnce ==
    /\ pc = "clean"
    /\ clean_item' = CleanItem(item)
    /\ pc' = "cleaned"
    /\ UNCHANGED <<state, attractions, idx, country, city, item, calls, lastReply, seen,
                   trace, out, exitCode, routed>>

CleanSpec == CleanInit /\ [][CleanOnce]_vars

-----------------------------------------------------------------------------
(* Vocabulary of the properties *)

\* the process has ended
Halted == pc \in {"done", "failed", "exited", "interrupted"}

\* the place of a node in the workflow
Rank(node) ==
    IF node = "get_destinations" THEN 1
    ELSE IF node = "get_attractions" THEN 2
    ELSE 3

Range(seq) == {seq[i] : i \in 1..Len(seq)}

IsPrefix(a, b) == Len(a) <= Len(b) /\ SubSeq(b, 1, Len(a)) = a

\* some call of the attractions loop has raised
SomeItemRaised == \E k \in DOMAIN seen : Raised \in seen[k].all

\* get_attractions has run to its return statement
AttractionsCompleted ==
    "get_attractions" \in Range(trace) /\ pc \notin {"get_attractions", "interrupted"}

-----------------------------------------------------------------------------
(* C1: a run from the initial state halts whatever the model answers and
   whichever per-item calls raise; it enters at most 3 nodes, each node at most
   once, and never a node that comes earlier in the workflow than one already
   entered.  Checked under FairSpec. *)

StepsInOrder ==
    /\ Len(trace) <= 3
    /\ \A i, j \in 1..Len(trace) : i < j => Rank(trace[i]) < Rank(trace[j])

\* C1: the nodes entered stay at most 3, each once and in workflow order, and
\* the run ends and stays ended
C1_RunHalts == []StepsInOrder /\ <>[]Halted

\* a complete run of all three nodes in which a per-item call raised
C1_Witness ==
    /\ pc = "done"
    /\ trace = <<"get_destinations", "get_attractions", "display_results">>
    /\ SomeItemRaised

-----------------------------------------------------------------------------
(* C2: route_by_step maps step 1 to get_destinations, 2 to get_attractions,
   3 to display_results and every other integer to END, and applying it
   leaves the State as it was.  Checked under RouterSpec. *)

RouterTable ==
    (pc = "routed" /\ "step" \in DOMAIN state) =>
        /\ state.step = 1 => routed = "get_destinations"
        /\ state.step = 2 => routed = "get_attractions"
        /\ state.step = 3 => routed = "display_results"
        /\ state.step \notin {1, 2, 3} => routed = END

\* C2: the router's answer follows the table for every step value, and the
\* State is the same after the call
C2_RouterTotal == []RouterTable /\ [][pc = "route" => state' = state]_vars

\* the router has answered END for step 0
C2_Witness ==
    /\ pc = "routed"
    /\ "step" \in DOMAIN state
    /\ state.step = 0
    /\ routed = END

-----------------------------------------------------------------------------
(* C3: per-item failure isolation in get_attractions. *)

\* what the loop stores for a call with outcome o
Expected(o) == IF o.ok THEN StoredAttractions(o.content) ELSE <<ErrorMarker>>

\* C3, as claimed: once get_attractions has completed, every item whose call
\* raised has the degraded marker list under its key, and every item whose
\* call returned has the list parsed from that response under its key
C3_EveryCallDecides ==
    AttractionsCompleted =>
        \A k \in DOMAIN seen : \A o \in seen[k].all :
            DictGet(state.attractions, k) = Expected(o)

\* the entries of d are those of the items in `items`, each decided by the
\* last call made for its key
DecidedByLastCall(d, items) ==
    /\ DictKeys(d) = Range(items)
    /\ DOMAIN seen = Range(items)
    /\ \A k \in DictKeys(d) : DictGet(d, k) = Expected(seen[k].last)

\* C3, amended: a call that raises stops neither the loop nor the run: every
\* item is processed, one call each, and the step completes normally; the
\* entry under a key is decided by the last call made for that key alone (the
\* marker list if it raised, the list parsed from its response otherwise),
\* whatever the other calls did
C3_LastCallDecides ==
    /\ (pc = "get_attractions" /\ idx >= 1) =>
           /\ DecidedByLastCall(attractions, SubSeq(state.destinations, 1, idx - 1))
           /\ Len(calls) = idx
    /\ AttractionsCompleted =>
           /\ DecidedByLastCall(state.attractions, state.destinations)
           /\ Len(calls) = 1 + Len(state.destinations)
           /\ pc \in {"display_results", "done"}

\* the loop has completed although calls raised: one key's call raised and a
\* later call for the same key returned, another key's last call raised
C3_Witness ==
    /\ AttractionsCompleted
    /\ \E k \in DOMAIN seen : Raised \in seen[k].all /\ seen[k].last.ok
    /\ \E k \in DOMAIN seen : seen[k].last = Raised
    /\ \E k \in DOMAIN seen : seen[k].all = {Replied(LongList)}

-----------------------------------------------------------------------------
(* C4: once get_attractions has completed the keys of results are exactly the
   items; before that results is empty; a key of results is never removed. *)

ResultsCoverItems ==
    IF AttractionsCompleted
    THEN DictKeys(state.attractions) = Range(state.destinations)
    ELSE state.attractions = <<>>

\* C4: results is empty before get_attractions completes and keyed by exactly
\* the items after; no step removes a key of results
C4_TotalCoverage ==
    /\ []ResultsCoverItems
    /\ [][DictKeys(state.attractions) \subseteq DictKeys(state.attractions')]_vars

\* results holds three keys after a loop in which a call raised
C4_Witness ==
    /\ AttractionsCompleted
    /\ Cardinality(DictKeys(state.attractions)) = 3
    /\ SomeItemRaised

-----------------------------------------------------------------------------
(* C5: truncation law of get_destinations. *)

IsBlank(line) == \A i \in 1..Len(line) : line[i] \in Whitespace

\* the lines of the response that are not blank, as they stand in it
NonBlankLines(content) == SelectSeq(Split(content, NL), LAMBDA line : ~IsBlank(line))

\* the response get_destinations received, once its update is merged
RawResponse == state.messages[1].content

\* C5, as claimed: the items are the non-blank lines of the response, in
\* order, cut to the first 10
C5_ItemsAreLines ==
    state.messages # <<>> =>
        state.destinations = Take(NonBlankLines(RawResponse), MaxDestinations)

\* C5, amended: the items are the non-blank lines of the response, each with
\* its leading and trailing whitespace removed, in order, cut to the first 10;
\* their number is min(10, number of non-blank lines), and fewer than 10 lines,
\* zero included, raise no error
C5_ItemsAreStrippedLines ==
    state.messages # <<>> =>
        LET lines == NonBlankLines(RawResponse)
            n == Min(MaxDestinations, Len(lines))
        IN  /\ Len(state.destinations) = n
            /\ \A i \in 1..n : state.destinations[i] = Strip(lines[i])
            /\ pc # "failed"

\* a response of more than 10 non-blank lines has been cut to 10 items
C5_Witness ==
    /\ state.messages # <<>>
    /\ Len(NonBlankLines(RawResponse)) > MaxDestinations
    /\ Len(state.destinations) = MaxDestinations

-----------------------------------------------------------------------------
(* C6: when the model call of get_destinations raises, the run aborts: no
   degraded data is recorded, neither get_attractions nor display_results
   runs, and items and results are empty when the run has ended. *)

\* get_destinations was entered and its update never reached the State
DestinationsCallRaised == trace # <<>> /\ state.messages = <<>> /\ lastReply = Raised

\* C6: after the call of get_destinations has raised the run is over, only
\* get_destinations was entered, one call was made, the State is the initial one
C6_DestinationsFailureIsFatal ==
    DestinationsCallRaised =>
        /\ pc = "failed"
        /\ trace = <<"get_destinations">>
        /\ Len(calls) = 1
        /\ state = initial_state

\* the run has ended on the failure of the first call
C6_Witness == pc = "failed" /\ DestinationsCallRaised /\ lastReply = Raised

-----------------------------------------------------------------------------
(* C7: on a fatal error (the model client cannot be constructed, or the model
   call of get_destinations raises) a diagnostic is printed and the process
   ends with a non-zero status. *)

FatalError == pc = "exited" \/ (pc = "failed" /\ DestinationsCallRaised)

DiagnosticPrinted ==
    \/ \E i \in 1..Len(out) : out[i] = InitDiagnostic[1]
    \/ \E i \in 1..Len(out) : out[i] = RunDiagnostic[1]

\* C7, as claimed: a fatal error leaves a diagnostic on the console and a
\* non-zero exit status
C7_FatalErrorExitsNonZero ==
    FatalError => (DiagnosticPrinted /\ exitCode # 0)

-----------------------------------------------------------------------------
(* C8: the conversation only grows at its end: across every step the old
   conversation is a prefix of the new one, and a get_destinations that
   returns appends the raw model response as one entry. *)

C8_AppendOnly ==
    [][/\ IsPrefix(state.messages, state.messages')
       /\ (pc = "get_destinations" /\ pc' \notin {"failed", "interrupted"}) =>
              /\ Len(state.messages') = Len(state.messages) + 1
              /\ state.messages'[Len(state.messages')].content = lastReply'.content
              /\ lastReply'.ok]_vars

\* the run has ended with the response of get_destinations in the conversation
C8_Witness ==
    /\ pc = "done"
    /\ Len(state.messages) = 1
    /\ state.messages[1].content = lastReply.content
    /\ state.messages[1].content # <<>>

-----------------------------------------------------------------------------
(* C9: a node's update changes only the keys it returns: get_destinations
   leaves results as they are; get_attractions leaves items and, returning an
   empty message list, the conversation; display_results leaves conversation,
   items and results and changes control only. *)

C9_MergeFrame ==
    [][/\ pc = "get_destinations" => state.attractions' = state.attractions
       /\ pc = "get_attractions" =>
              /\ state.destinations' = state.destinations
              /\ state.messages' = state.messages
       /\ pc = "display_results" =>
              /\ state.messages' = state.messages
              /\ state.destinations' = state.destinations
              /\ state.attractions' = state.attractions
              /\ state.step' # state.step]_vars

\* display_results has run on a State that holds a response, items and results
C9_Witness ==
    /\ pc = "done"
    /\ "display_results" \in Range(trace)
    /\ state.messages # <<>>
    /\ state.destinations # <<>>
    /\ state.attractions # <<>>
    /\ state.step = 0

-----------------------------------------------------------------------------
(* C10: the loop of get_attractions cuts an item at its first '-' into
   (country, city); an item with no '-' gives ("Unknown", the item); the prompt
   of the call holds the city, not the item. *)

\* the item of the latest call of the loop
LatestItem == state.destinations[Len(calls) - 1]

\* C10: after every pass of the loop, country and city are the item cut at its
\* first '-', or Unknown and the whole item; the prompt sent holds city
C10_SeparatorSplit ==
    Len(calls) >= 2 =>
        /\ "-" \in Range(LatestItem) =>
               /\ country \o <<"-">> \o city = LatestItem
               /\ "-" \notin Range(country)
        /\ "-" \notin Range(LatestItem) =>
               /\ country = Unknown
               /\ city = LatestItem
        /\ calls[Len(calls)][1].content =
               <<GET_ATTRACTIONS_PROMPT_TEMPLATE.content[1]>> \o city
               \o <<GET_ATTRACTIONS_PROMPT_TEMPLATE.content[3]>>
        /\ LatestItem \in DOMAIN seen

\* an item with two separators has been cut at the first
C10_Witness ==
    /\ Len(calls) >= 2
    /\ LatestItem = <<"F", "-", "P", "-", "x">>
    /\ country = <<"F">>
    /\ city = <<"P", "-", "x">>

-----------------------------------------------------------------------------
(* C11: line 115 removes from the front of an item every character that is a
   digit, a full stop or a space, up to the first character that is none of
   these, and leaves the rest as it is. *)

\* the characters line 115 treats as markers, written out
C11_Markers == {"0", "1", "2", "3", "4", "5", "6", "7", "8", "9", ".", " "}

\* the text with its longest leading run of markers removed
C11_Unmarked(text) ==
    LET n == CHOOSE k \in 0..Len(text) :
                 /\ \A i \in 1..k : text[i] \in C11_Markers
                 /\ k < Len(text) => text[k + 1] \notin C11_Markers
    IN  SubSeq(text, n + 1, Len(text))

\* C11 as stated: "2. E" becomes "E"; an item that begins with a letter, and
\* an item that does not begin with a digit, come back unchanged
C11_NoLeadingDigitUnchanged ==
    pc = "cleaned" =>
        /\ item = <<"2", ".", " ", "E">> => clean_item = <<"E">>
        /\ item[1] \in Letters => clean_item = item
        /\ item[1] \notin Digits => clean_item = item

\* C11: the cleaned item is the item without its longest leading run of
\* digits, full stops and spaces; "2. E" becomes "E"; an item that begins with
\* any other character (a letter, a dash) comes back unchanged
C11_LeadingMarkersStripped ==
    pc = "cleaned" =>
        /\ clean_item = C11_Unmarked(item)
        /\ item = <<"2", ".", " ", "E">> => clean_item = <<"E">>
        /\ item[1] \in Letters => clean_item = item
        /\ item[1] \notin C11_Markers => clean_item = item
        /\ item = <<"-", " ", "E">> => clean_item = item

\* an enumerated item has been cleaned to its text
C11_Witness ==
    /\ pc = "cleaned"
    /\ item = <<"2", ".", " ", "E">>
    /\ clean_item = <<"E">>

-----------------------------------------------------------------------------
(* C12: state.step is written by the three nodes only, 1 -> 2 -> 3 -> 0, and
   the router reads it without writing it. *)

\* the step value with which each position of the workflow is entered
C12_StepAt ==
    /\ pc \in {"init", "get_destinations"} => state.step = 1
    /\ pc = "get_attractions" => state.step = 2
    /\ pc = "display_results" => state.step = 3
    /\ pc = "done" => state.step = 0 /\ route_by_step(state) = END

\* a change of state.step is one of the three writes, made by its node
C12_StepWrite ==
    state.step' # state.step =>
        \/ pc = "get_destinations" /\ state.step = 1 /\ state.step' = 2
        \/ pc = "get_attractions" /\ state.step = 2 /\ state.step' = 3
        \/ pc = "display_results" /\ state.step = 3 /\ state.step' = 0

\* a node that returns has written its value, and the router's answer for the
\* merged state is the node that runs next
C12_RoutingPoint ==
    /\ (pc = "get_destinations" /\ pc' \notin {pc, "failed", "interrupted"}) =>
           state.step' = 2 /\ routed' = "get_attractions" /\ pc' = routed'
    /\ (pc = "get_attractions" /\ pc' \notin {pc, "interrupted"}) =>
           state.step' = 3 /\ routed' = "display_results" /\ pc' = routed'
    /\ (pc = "display_results" /\ pc' # pc) =>
           state.step' = 0 /\ pc' = "done" /\ routed' = routed

-----------------------------------------------------------------------------
(* C13: the heading display_results prints for a key of attractions against
   the (country, city) pair the loop of get_attractions derives for it. *)

\* the heading lines of the report, in the order printed
C13_Headings == SelectSeq(out, LAMBDA line : line[1] \in {"heading", "heading_plain"})

\* C13: once the report is printed, the heading of every key of attractions
\* shows the city and the country that get_attractions derived for that key
\* (cut at the first '-'; country "Unknown" when there is no '-')
C13_HeadingIsLoopSplit ==
    (pc = "done" /\ "display_results" \in Range(trace)) =>
        /\ Len(C13_Headings) = Len(state.attractions)
        /\ \A p \in 1..Len(state.attractions) :
               LET destination == state.attractions[p][1] IN
               /\ C13_Headings[p][1] = "heading"
               /\ C13_Headings[p] = <<"heading", SplitDestination(destination)[2],
                                      SplitDestination(destination)[1]>>

-----------------------------------------------------------------------------
(* C14: what get_attractions stores under a key whose call returned. *)

\* a line holds a letter or a digit
C14_HasAlnum(line) == \E i \in 1..Len(line) : line[i] \in Letters \cup Digits

\* each line without the whitespace around it and without its leading markers
C14_Cleaned(lines) == [i \in 1..Len(lines) |-> C11_Unmarked(Strip(lines[i]))]

\* the cleaned lines that are not empty, cut to the first 5
C14_Kept(lines) ==
    Take(SelectSeq(C14_Cleaned(lines), LAMBDA text : text # <<>>), MaxAttractions)

\* the keys of the local dict whose last call returned
C14_Succeeded == {k \in DictKeys(attractions) : k \in DOMAIN seen /\ seen[k].last.ok}

\* C14 as stated: the entry of a key whose call returned is the non-blank lines
\* of the response, cleaned, in order, without empty strings, cut to 5; every
\* non-blank line before the fifth kept one is there
C14_EntryIsNonBlankLines ==
    \A k \in C14_Succeeded :
        DictGet(attractions, k) = C14_Kept(NonBlankLines(seen[k].last.content))

\* C14, amended: the entry of a key whose call returned is the lines of the
\* response that hold a letter or a digit, each without the whitespace around
\* it and without its leading markers, those left empty dropped, in order, cut
\* to the first 5: at most 5 elements, none empty
C14_EntryIsAlnumLines ==
    \A k \in C14_Succeeded :
        LET lines == SelectSeq(NonBlankLines(seen[k].last.content), C14_HasAlnum)
            entry == DictGet(attractions, k)
        IN  /\ entry = C14_Kept(lines)
            /\ Len(entry) <= 5
            /\ \A j \in 1..Len(entry) : entry[j] # <<>>

\* a response of ten lines has been stored as five entries: the blank line,
\* the line of dashes and the bare marker are left out, the dash of "- c" stays
C14_Witness ==
    /\ AttractionsCompleted
    /\ \E k \in C14_Succeeded :
           /\ seen[k].last = Replied(LongList)
           /\ DictGet(state.attractions, k) =
                  << <<"a">>, <<"b">>, <<"-", " ", "c">>, <<"d">>, <<"e">> >>

-----------------------------------------------------------------------------
(* C15: the model is called once by get_destinations and once for each item by
   get_attractions, in the order of the items, one call at a time. *)

\* the prompt list of the call made for an item: the template filled with the
\* part of the item after its first '-', or with the whole item
C15_CallFor(destination) ==
    LET at == IF "-" \in Range(destination)
              THEN CHOOSE i \in 1..Len(destination) :
                       destination[i] = "-" /\ \A j \in 1..(i - 1) : destination[j] # "-"
              ELSE 0
    IN  <<[role |-> "system",
           content |-> <<GET_ATTRACTIONS_PROMPT_TEMPLATE.content[1]>>
                       \o SubSeq(destination, at + 1, Len(destination))
                       \o <<GET_ATTRACTIONS_PROMPT_TEMPLATE.content[3]>>]>>

\* the calls made so far: the destinations call first, then the calls of the
\* items, in order, one each
C15_CallsInOrder ==
    /\ Len(calls) <= 11
    /\ pc \in {"init", "exited", "get_destinations"} => calls = <<>>
    /\ calls # <<>> => calls[1] = <<GET_DESTINATIONS_PROMPT>>
    /\ \A i \in 2..Len(calls) :
           /\ i - 1 <= Len(state.destinations)
           /\ calls[i] = C15_CallFor(state.destinations[i - 1])
    /\ (pc = "get_attractions" /\ idx = 0) => Len(calls) = 1
    /\ (pc = "get_attractions" /\ idx >= 1) => Len(calls) = idx
    /\ pc \in {"display_results", "done"} => Len(calls) = 1 + Len(state.destinations)

\* one step makes at most one call, which has returned or failed when the step
\* ends; a call once made stays as it was; display_results makes none
C15_OneCallAtATime ==
    /\ IsPrefix(calls, calls')
    /\ Len(calls') <= Len(calls) + 1
    /\ calls' # calls => lastReply' # NoReply
    /\ pc = "display_results" => calls' = calls

\* C15: get_destinations calls the model exactly once; get_attractions calls
\* it exactly once for each item, in the order of the items, a call that failed
\* not being made again; display_results makes no call; a run makes at most 11
\* calls, one at a time
C15_SequentialCalls == [](C15_CallsInOrder) /\ [][C15_OneCallAtATime]_vars

\* a run of 11 calls, one of which failed, has ended
C15_Witness ==
    /\ pc = "done"
    /\ Len(calls) = 11
    /\ SomeItemRaised

-----------------------------------------------------------------------------
(* C16: a destinations response with no non-blank line gives an empty list of
   items, and the run goes through get_attractions and display_results all the
   same. *)

\* get_destinations has returned and found no item
C16_NoItems == state.messages # <<>> /\ state.destinations = <<>>

\* with no item there is no call but the first, nothing raises and nothing is
\* collected
C16_NothingToDo ==
    C16_NoItems =>
        /\ IsBlank(RawResponse)
        /\ Len(calls) = 1
        /\ attractions = <<>>
        /\ state.attractions = <<>>
        /\ pc \in {"get_attractions", "display_results", "done"}
        /\ pc = "display_results" => state.step = 3
        /\ \A i \in 1..Len(out) : out[i][1] \notin {RunDiagnostic[1][1], InterruptNotice[1][1]}

\* the run has ended normally after the three nodes
C16_EndedNormally ==
    /\ pc = "done"
    /\ trace = <<"get_destinations", "get_attractions", "display_results">>
    /\ state.attractions = <<>>
    /\ Len(calls) = 1
    /\ exitCode = 0
    /\ out[Len(out)] = Completed[1]

\* C16: when get_destinations yields no item, get_attractions makes no call
\* and returns an empty dict, control goes on to 3, display_results runs and the
\* run ends normally, nothing being raised
C16_EmptyWorklist == [](C16_NothingToDo) /\ (C16_NoItems ~> C16_EndedNormally)

\* a run with no item has ended after display_results
C16_Witness == C16_NoItems /\ C16_EndedNormally

-----------------------------------------------------------------------------
(* C17: the report of display_results shows every key of attractions with
   every element of its list, the error marker included. *)

\* the report has been printed
C17_Reported == pc = "done" /\ "display_results" \in Range(trace)

\* where the attractions part of the report starts in the output
C17_Start == CHOOSE i \in 1..Len(out) : out[i] = <<"FAMOUS ATTRACTIONS FOR EACH CITY:">>

\* the number of lines the first n entries of the dict take in the report
RECURSIVE C17_LinesOf(_, _)
C17_LinesOf(d, n) == IF n = 0 THEN 0 ELSE C17_LinesOf(d, n - 1) + 1 + Len(d[n][2])

\* the line is a heading for the key: its city and country, or the key itself
C17_HeadingOf(line, k) ==
    \/ line[1] = "heading" /\ line[3] \o <<"-">> \o line[2] = k
    \/ line[1] = "heading_plain" /\ line[2] = k

\* the line is the j-th line of a list and shows text
C17_ShowsElement(line, j, text) ==
    line[1] = "attraction" /\ line[2] = j /\ line[3] = text

\* entry p of the dict is in the report: its heading, then its elements
C17_Rendered(p) ==
    LET at == C17_Start + C17_LinesOf(state.attractions, p - 1) + 1
        entry == state.attractions[p]
    IN  /\ at + Len(entry[2]) <= Len(out)
        /\ C17_HeadingOf(out[at], entry[1])
        /\ \A j \in 1..Len(entry[2]) : C17_ShowsElement(out[at + j], j, entry[2][j])

\* the key is in the report under the error marker
C17_MarkerShown(k) ==
    \E at \in 1..(Len(out) - 1) :
        /\ C17_HeadingOf(out[at], k)
        /\ C17_ShowsElement(out[at + 1], 1, <<"Error retrieving attractions">>)

\* C17 as stated: once the report is printed, every item for which a call
\* failed is shown with the marker, and every key and element is shown
C17_EveryFailureShown ==
    C17_Reported =>
        /\ \A k \in DOMAIN seen : Raised \in seen[k].all => C17_MarkerShown(k)
        /\ \A p \in 1..Len(state.attractions) : C17_Rendered(p)

\* C17, amended: once the report is printed, every key whose last call failed
\* is shown with the marker "Error retrieving attractions" as its only element;
\* every key of attractions is shown, in order, with every element of its
\* list, and the report holds no other heading or element
C17_LastFailureShown ==
    C17_Reported =>
        /\ \A k \in DOMAIN seen : seen[k].last = Raised => C17_MarkerShown(k)
        /\ \A p \in 1..Len(state.attractions) : C17_Rendered(p)
        /\ Len(SelectSeq(out, LAMBDA line : line[1] \in {"heading", "heading_plain", "attraction"}))
               = C17_LinesOf(state.attractions, Len(state.attractions))

\* a report has been printed that shows the marker for one key and a parsed
\* list for another
C17_Witness ==
    /\ C17_Reported
    /\ \E k \in DOMAIN seen : seen[k].last = Raised /\ C17_MarkerShown(k)
    /\ \E k \in DOMAIN seen : seen[k].last.ok /\ ~C17_MarkerShown(k)
    /\ Len(state.attractions) = 3

-----------------------------------------------------------------------------
(* C18: a KeyboardInterrupt that arrives while llm.invoke is waiting is not an
   Exception: it is not caught at line 124, it ends the stream, and the run
   block prints one line (lines 255-256). *)

\* after an interrupt: the run has stopped at the interrupted call, nothing of
\* the loop's dict has reached the State, and the script ends with the notice
C18_Stopped ==
    /\ lastReply = Interrupted <=> pc = "interrupted"
    /\ pc = "interrupted" =>
           /\ state.attractions = <<>>
           /\ state.step \in {1, 2}
           /\ "display_results" \notin Range(trace)
           /\ out[Len(out)] = <<"Process interrupted by user.">>
           /\ \A i \in 1..Len(out) : out[i][1] # RunDiagnostic[1][1]
           /\ exitCode = 0

\* the step that is interrupted stores nothing, neither a marker in the loop's
\* dict nor an update in the State; after it no step is taken
C18_Interrupt ==
    /\ pc' = "interrupted" =>
           /\ pc \in {"get_destinations", "get_attractions", "interrupted"}
           /\ state' = state
           /\ attractions' = attractions
    /\ pc = "interrupted" => vars' = vars

\* C18: an interrupt during a model call, a call of the loop included, is not
\* turned into a degraded entry; no step and no call follows it, what the loop
\* had collected is never merged into the State, and the script ends with its
\* notice and status 0
C18_InterruptStops == [](C18_Stopped) /\ [][C18_Interrupt]_vars

\* the third call of the loop has been interrupted: two entries were collected
\* and the State holds none
C18_Witness ==
    /\ pc = "interrupted"
    /\ Len(calls) = 4
    /\ Len(attractions) = 2
    /\ state.attractions = <<>>
    /\ state.destinations # <<>>

-----------------------------------------------------------------------------
(* C19: the name route_by_step returns after a node is always a key of the
   path map given to add_conditional_edges for that node (lines 192-209). *)

\* the keys of the two path maps, as written at lines 195-199 and 205-208
C19_Keys(node) ==
    IF node = "get_destinations" THEN {"get_attractions", "display_results", "__end__"}
    ELSE IF node = "get_attractions" THEN {"display_results", "__end__"}
    ELSE {}

\* the step is the return of a node that has conditional edges
C19_NodeReturns == pc \in {"get_destinations", "get_attractions"} /\ state' # state

\* the router's answer for the State the node leaves is a key of the node's
\* map, and the graph goes where the map says
C19_Routing ==
    C19_NodeReturns =>
        /\ routed' = route_by_step(state')
        /\ routed' \in C19_Keys(pc)
        /\ routed' \notin {"get_destinations", pc}
        /\ pc' = routed'

\* the router has answered nothing but the two names that have an edge, and the
\* only Exception of a run is the one raised by the destinations call
C19_NoMissingKey ==
    /\ routed \in {"none", "get_attractions", "display_results"}
    /\ routed = "get_attractions" => "get_destinations" \in Range(trace)
    /\ routed = "display_results" => "get_attractions" \in Range(trace)
    /\ pc = "failed" => routed = "none" /\ lastReply = Raised /\ Len(calls) = 1

\* C19: whenever route_by_step is evaluated after a node, the name it returns
\* is a key of that node's path map; "get_destinations" after either node and
\* "get_attractions" after get_attractions are never returned
C19_RouterInPathMap == [](C19_NoMissingKey) /\ [][C19_Routing]_vars

\* the router has been evaluated after both nodes and display_results is next
C19_Witness ==
    /\ pc = "display_results"
    /\ routed = "display_results"
    /\ trace = <<"get_destinations", "get_attractions">>
    /\ Len(state.attractions) >= 1

====
